---- MODULE Spec2Model ----
(***************************************************************************)
(* Model of the NSE polling-and-cache backend (src/app.py).                *)
(*                                                                         *)
(* Time is counted in tenths of a second, so that the pacing sleeps of the *)
(* handlers (1 s, 0.5 s, 0.3 s) and the cache TTL (60 s) are all integers. *)
(* A handler is one step taken at the clock value `now` at which it reads  *)
(* time.time(); the time it sleeps is recorded with the request, and the   *)
(* time that passes before the next request starts is a Tick step.         *)
(* A Python dict is a function with a set of strings as its domain, a      *)
(* Python list is a sequence, None is the record None below.               *)
(***************************************************************************)
EXTENDS Integers, Sequences, FiniteSets, TLC

VARIABLES
    cache,      \* the module-level dict `cache`: data, timestamp, ttl
    now,        \* the wall clock (time.time(), datetime.now()), in tenths of a second
    last,       \* the request handled last: route, response, upstream requests it issued
    hist,       \* per cached route, its most recent call since the last clear-cache
    fetched,    \* per cache field, the start time of the request that fetched it
    quotesOk,   \* TRUE while no upstream quote request has failed
    succeeded,  \* TRUE once some upstream data request has succeeded
    flight      \* the requests in flight, when requests are handled concurrently

vars == <<cache, now, last, hist, fetched, quotesOk, succeeded, flight>>

----------------------------------------------------------------------------
(* Program constants, in tenths of a second where they are durations.      *)

TTL == 600
WarmSleep == 10
StocksSleep == 5
AllSleep == 3
MoversLimit == 10
AllStocksLimit == 15
OpenHour == 9
CloseHour == 16

TOP_STOCKS ==
    << "RELIANCE", "TCS", "HDFCBANK", "INFY", "ICICIBANK",
       "HINDUNILVR", "ITC", "SBIN", "BHARTIARTL", "KOTAKBANK",
       "LT", "AXISBANK", "ASIANPAINT", "MARUTI", "BAJFINANCE",
       "TITAN", "SUNPHARMA", "ULTRACEMCO", "NESTLEIND", "WIPRO" >>

INDEX_NAMES_with_auto ==
    {"NIFTY 50", "NIFTY BANK", "NIFTY IT", "NIFTY MIDCAP 100", "NIFTY AUTO"}

INDEX_NAMES == {"NIFTY 50", "NIFTY BANK", "NIFTY IT", "NIFTY MIDCAP 100"}

(* Bounds of the model.                                                    *)

TickStep == 300
MaxElapsed == 900
MaxEntries == 11

----------------------------------------------------------------------------
(* Python values.                                                          *)

None == [None |-> TRUE]

EmptyDict == << >>

\* bool(v) for the values the handlers test: None, a dict or a list
Truthy(v) == v # None /\ DOMAIN v # {}

\* d.get(k, default)
Get(d, k, default) == IF k \in DOMAIN d THEN d[k] ELSE default

\* d[k] = v
Put_fresh(d, k, v) == [x \in {k} |-> v]

Put(d, k, v) == [x \in (DOMAIN d) \cup {k} |-> IF x = k THEN v ELSE d[x]]

\* l[:n]
Take(l, n) == SubSeq(l, 1, IF Len(l) < n THEN Len(l) ELSE n)

\* datetime.now().hour for the clock value t
Hour_shifted(t) == ((t \div 36000) + 1) % 24

Hour(t) == (t \div 36000) % 24

\* str.upper() on a string given as its sequence of characters
UpperChar(c) ==
    CASE c = "a" -> "A" [] c = "b" -> "B" [] c = "c" -> "C" [] c = "f" -> "F"
      [] c = "o" -> "O" [] c = "s" -> "S" [] c = "t" -> "T"
      [] OTHER -> c

upper(s) == [i \in DOMAIN s |-> UpperChar(s[i])]

----------------------------------------------------------------------------
(* Upstream responses. session.get either raises (connection error,      *)
(* timeout) or returns a response with a status code; response.json()     *)
(* either raises (malformed JSON) or returns the parsed body.              *)

Raised == [raised |-> TRUE]

Reply(code, parses, body) ==
    [raised |-> FALSE, status_code |-> code, parses |-> parses, body |-> body]

Refused == Reply(503, TRUE, EmptyDict)

Malformed == Reply(200, FALSE, EmptyDict)

\* how a request ended, for the request log
Outcome(resp) ==
    IF resp.raised THEN "raised"
    ELSE IF resp.status_code # 200 THEN "status"
    ELSE IF ~resp.parses THEN "malformed"
    ELSE "ok"

\* init_nse_session: True unless session.get raised; a non-2xx status does
\* not raise
init_nse_session(resp) == ~resp.raised

HomeRequest(resp) ==
    [url |-> "home", outcome |-> Outcome(resp), returned |-> init_nse_session(resp)]

DataRequest(url, symbol, resp) ==
    [url |-> url, symbol |-> symbol, outcome |-> Outcome(resp)]

----------------------------------------------------------------------------
(* Upstream payloads.                                                      *)

\* a quote-equity body with every field present
FullQuoteBody(symbol) ==
    [ priceInfo |->
        [ lastPrice |-> 100, change |-> 2, pChange |-> 1, previousClose |-> 98,
          open |-> 99, intraDayHighLow |-> [max |-> 101, min |-> 97],
          totalTradedVolume |-> 5000, totalTradedValue |-> 9000,
          lastUpdateTime |-> "15:30" ],
      metadata |-> [companyName |-> "Company"] ]

QuoteOk(symbol) == Reply(200, TRUE, FullQuoteBody(symbol))

\* a 200 response that parses to an object without any of the fields read
QuoteBare == Reply(200, TRUE, EmptyDict)

IndexItem(name) ==
    [ index |-> name, last |-> 200, variation |-> 3, percentChange |-> 1,
      open |-> 198, high |-> 202, low |-> 197 ]

IndicesOk(names) ==
    Reply(200, TRUE, [data |-> [i \in DOMAIN names |-> IndexItem(names[i])]])

\* the k-th entry of an upstream gainers or losers list; pChange is not
\* monotonic in k, so upstream order differs from any sorted order
MoverItem(side, k) ==
    [ symbol |-> <<side, k>>, meta |-> [companyName |-> "Company"],
      lastPrice |-> 100 + k, change |-> k, pChange |-> (k * 7) % 5 ]

MoverList(side, n) == [k \in 1..n |-> MoverItem(side, k)]

MoversOk(side, n) == Reply(200, TRUE, [NIFTY |-> [data |-> MoverList(side, n)]])

----------------------------------------------------------------------------
(* The fetch layer.                                                        *)

\* time spent in init_nse_session: the sleep is skipped when the get raised
WarmTime(resp) == IF resp.raised THEN 0 ELSE WarmSleep

\* fetch_nse_stock_data without the status check: every response that
\* parses is reshaped into a quote
fetch_nse_stock_data_any_status(symbol, resp, clock) ==
    IF resp.raised \/ ~resp.parses THEN None
    ELSE [ symbol |-> symbol, name |-> symbol, price |-> 0, change |-> 0,
           pChange |-> 0, previousClose |-> 0, open |-> 0, dayHigh |-> 0,
           dayLow |-> 0, volume |-> 0, value |-> 0, lastUpdateTime |-> "",
           timestamp |-> clock ]

fetch_nse_stock_data_strict(symbol, resp, clock) ==
    IF resp.raised THEN None
    ELSE IF resp.status_code = 200
    THEN IF ~resp.parses \/ {"priceInfo", "metadata"} \ DOMAIN resp.body # {}
         THEN None
         ELSE LET price_info == resp.body.priceInfo
                  price_band == resp.body.metadata
              IN [ symbol |-> symbol,
                   name |-> Get(price_band, "companyName", symbol),
                   price |-> Get(price_info, "lastPrice", 0),
                   change |-> Get(price_info, "change", 0),
                   pChange |-> Get(price_info, "pChange", 0),
                   previousClose |-> Get(price_info, "previousClose", 0),
                   open |-> Get(price_info, "open", 0),
                   dayHigh |-> Get(Get(price_info, "intraDayHighLow", EmptyDict), "max", 0),
                   dayLow |-> Get(Get(price_info, "intraDayHighLow", EmptyDict), "min", 0),
                   volume |-> Get(price_info, "totalTradedVolume", 0),
                   value |-> Get(price_info, "totalTradedValue", 0),
                   lastUpdateTime |-> Get(price_info, "lastUpdateTime", ""),
                   timestamp |-> clock ]
    ELSE None

\* fetch_nse_stock_data: the quote, or None; clock is datetime.now()
fetch_nse_stock_data(symbol, resp, clock) ==
    IF resp.raised THEN None
    ELSE IF resp.status_code = 200
    THEN IF ~resp.parses THEN None
         ELSE LET data == resp.body
                  price_info == Get(data, "priceInfo", EmptyDict)
                  price_band == Get(data, "metadata", EmptyDict)
              IN [ symbol |-> symbol,
                   name |-> Get(price_band, "companyName", symbol),
                   price |-> Get(price_info, "lastPrice", 0),
                   change |-> Get(price_info, "change", 0),
                   pChange |-> Get(price_info, "pChange", 0),
                   previousClose |-> Get(price_info, "previousClose", 0),
                   open |-> Get(price_info, "open", 0),
                   dayHigh |-> Get(Get(price_info, "intraDayHighLow", EmptyDict), "max", 0),
                   dayLow |-> Get(Get(price_info, "intraDayHighLow", EmptyDict), "min", 0),
                   volume |-> Get(price_info, "totalTradedVolume", 0),
                   value |-> Get(price_info, "totalTradedValue", 0),
                   lastUpdateTime |-> Get(price_info, "lastUpdateTime", ""),
                   timestamp |-> clock ]
    ELSE None

\* the loop of fetch_nse_indices over data.get('data', [])
RECURSIVE IndicesLoop(_, _, _)
IndicesLoop(items, i, indices) ==
    IF i > Len(items) THEN indices
    ELSE LET item == items[i]
             index_name == Get(item, "index", "")
         IN IndicesLoop(items, i + 1,
                IF index_name \in INDEX_NAMES
                THEN Put(indices, index_name,
                         [ value |-> Get(item, "last", 0),
                           change |-> Get(item, "variation", 0),
                           pChange |-> Get(item, "percentChange", 0),
                           open |-> Get(item, "open", 0),
                           high |-> Get(item, "high", 0),
                           low |-> Get(item, "low", 0) ])
                ELSE indices)

\* fetch_nse_indices: the mapping, empty on every failure
fetch_nse_indices(resp) ==
    IF resp.raised THEN EmptyDict
    ELSE IF resp.status_code = 200
    THEN IF ~resp.parses THEN EmptyDict
         ELSE IndicesLoop(Get(resp.body, "data", << >>), 1, EmptyDict)
    ELSE EmptyDict

\* one entry of a movers side, as reshaped by fetch_top_gainers_losers
MoverEntry(item) ==
    [ symbol |-> Get(item, "symbol", ""),
      name |-> Get(Get(item, "meta", EmptyDict), "companyName", ""),
      price |-> Get(item, "lastPrice", 0),
      change |-> Get(item, "change", 0),
      pChange |-> Get(item, "pChange", 0) ]

\* the entries appended for one side from a parsed 200 response
MoversSide(resp) ==
    LET items == Take(Get(Get(resp.body, "NIFTY", EmptyDict), "data", << >>), MoversLimit)
    IN [k \in DOMAIN items |-> MoverEntry(items[k])]

EmptyMovers == [gainers |-> << >>, losers |-> << >>]

\* fetch_top_gainers_losers: both requests and both parses sit in one try
\* block, so an exception anywhere returns the value of the except branch
fetch_top_gainers_losers(gainers_response, losers_response) ==
    IF gainers_response.raised \/ losers_response.raised THEN EmptyMovers
    ELSE IF gainers_response.status_code = 200 /\ ~gainers_response.parses THEN EmptyMovers
    ELSE IF losers_response.status_code = 200 /\ ~losers_response.parses THEN EmptyMovers
    ELSE [ gainers |-> IF gainers_response.status_code = 200
                       THEN MoversSide(gainers_response) ELSE << >>,
           losers |-> IF losers_response.status_code = 200
                      THEN MoversSide(losers_response) ELSE << >> ]

\* the upstream requests fetch_top_gainers_losers issues: the losers request
\* is not reached when the gainers request raised
MoversRequests(gainers_response, losers_response) ==
    IF gainers_response.raised
    THEN << DataRequest("gainers", "", gainers_response) >>
    ELSE << DataRequest("gainers", "", gainers_response),
            DataRequest("losers", "", losers_response) >>

\* the loop `for symbol in symbols: data = fetch_nse_stock_data(symbol);
\* if data: stocks_data.append(data)`
RECURSIVE StocksLoop(_, _, _, _, _)
StocksLoop(symbols, i, quote, clock, stocks_data) ==
    IF i > Len(symbols) THEN stocks_data
    ELSE LET data == fetch_nse_stock_data(symbols[i], quote[symbols[i]], clock)
         IN StocksLoop(symbols, i + 1, quote, clock,
                IF Truthy(data) THEN Append(stocks_data, data) ELSE stocks_data)

\* quote requests with one more attempt for each symbol that failed
StocksRequests_retry(symbols, quote) ==
    LET once == [i \in DOMAIN symbols |->
                    DataRequest("quote-equity", symbols[i], quote[symbols[i]])]
        failed(r) == r.outcome # "ok"
    IN once \o SelectSeq(once, failed)

\* the quote requests the loop issues, one per symbol, in list order
StocksRequests(symbols, quote) ==
    [i \in DOMAIN symbols |-> DataRequest("quote-equity", symbols[i], quote[symbols[i]])]

----------------------------------------------------------------------------
(* The upstream scenarios a handler may meet: one response per request it  *)
(* can issue.                                                              *)

Symbols == {TOP_STOCKS[i] : i \in DOMAIN TOP_STOCKS}

Healthy ==
    [ home |-> Reply(200, TRUE, EmptyDict),
      quote |-> [s \in Symbols |-> QuoteOk(s)],
      indices |-> IndicesOk(<< "NIFTY 50", "NIFTY AUTO", "NIFTY BANK" >>),
      gainers |-> MoversOk("gainers", 3),
      losers |-> MoversOk("losers", MaxEntries) ]

Failures == {Raised, Refused, Malformed}

Down ==
    [ home |-> Raised, quote |-> [s \in Symbols |-> Raised],
      indices |-> Raised, gainers |-> Raised, losers |-> Raised ]

Worlds ==
    { Healthy, Down,
      [Healthy EXCEPT !.quote = [s \in Symbols |-> Refused]],
      [Healthy EXCEPT !.quote["TCS"] = Malformed],
      [Healthy EXCEPT !.indices = Malformed],
      [Healthy EXCEPT !.gainers = Raised],
      [Healthy EXCEPT !.losers = Malformed] }

\* the responses of the two movers requests, for the movers fetcher alone
LegResponses(side) == Failures \cup {MoversOk(side, n) : n \in 0..MaxEntries}

\* /api/stock/<symbol>: the symbols requested and the responses met
SymbolInputs == { << "t", "c", "s" >>, << "F", "o", "o" >> }

QuoteResponses(symbol) == Failures \cup {QuoteOk(symbol), QuoteBare}

QuoteFailed(resp) == Outcome(resp) # "ok"

----------------------------------------------------------------------------
(* State.                                                                  *)

CachedRoutes == {"stocks", "indices", "all"}

NoCall == [valid |-> FALSE]

Absent == -1

NoRequest == [op |-> "none"]

ServerError == "Internal Server Error"

\* The two observers are kept in separate specifications: Spec records the
\* request handled last and leaves hist unobserved, SpecPairs records the
\* most recent call per cached route and leaves last unobserved.
Unobserved == [op |-> "unobserved"]

NoPairs == [c \in CachedRoutes |-> NoCall]

\* the module as loaded, whatever the wall clock
Loaded ==
    /\ cache = [data |-> None, timestamp |-> 0, ttl |-> TTL]
    /\ fetched = [stocks |-> Absent, indices |-> Absent, movers |-> Absent]
    /\ quotesOk = TRUE
    /\ succeeded = FALSE

Program == Loaded /\ now = 0

\* requests are handled one at a time
Sequential == flight = Unobserved

Init == Program /\ Sequential /\ last = NoRequest /\ hist = Unobserved

InitPairs == Program /\ Sequential /\ last = Unobserved /\ hist = NoPairs

\* what is recorded about a handled request: the response, whether it was
\* answered from the cache, the upstream requests issued, the time slept,
\* and whether the request handled before it was a clear-cache
Handled(op, arg, status, body, hit, reqs, slept) ==
    [ op |-> op, arg |-> arg, at |-> now, status |-> status, body |-> body,
      hit |-> hit, reqs |-> reqs, slept |-> slept,
      after_clear |-> (last.op = "clear") ]

Seen(call) == IF last = Unobserved THEN last ELSE call

\* some data request of the sequence was answered 200 with a body that parses
AnyOk(reqs) == \E i \in DOMAIN reqs : reqs[i].url # "home" /\ reqs[i].outcome = "ok"

Record(c, call) ==
    IF hist = Unobserved THEN hist
    ELSE [hist EXCEPT ![c] = [ valid |-> TRUE, at |-> call.at, status |-> call.status,
                               body |-> call.body, hit |-> call.hit ]]

\* time passes between two requests
Tick ==
    /\ now + TickStep <= MaxElapsed
    /\ now' = now + TickStep
    /\ UNCHANGED <<cache, last, hist, fetched, quotesOk, succeeded, flight>>

\* GET /api/stocks
get_stocks(up) ==
    LET current_time == now
    IN IF Truthy(cache.data) /\ (current_time - cache.timestamp) < cache.ttl
       THEN \* cache['data']['stocks'] raises KeyError when the key is missing
            LET call == IF "stocks" \in DOMAIN cache.data
                        THEN Handled("stocks", "", 200, cache.data["stocks"], TRUE, << >>, 0)
                        ELSE Handled("stocks", "", 500, ServerError, TRUE, << >>, 0)
            IN /\ last' = Seen(call)
               /\ hist' = Record("stocks", call)
               /\ UNCHANGED <<cache, now, fetched, quotesOk, succeeded, flight>>
       ELSE LET stocks_data == StocksLoop(TOP_STOCKS, 1, up.quote, now, << >>)
                data == IF ~Truthy(cache.data) THEN EmptyDict ELSE cache.data
                call == Handled("stocks", "", 200, stocks_data, FALSE,
                                <<HomeRequest(up.home)>> \o StocksRequests(TOP_STOCKS, up.quote),
                                WarmTime(up.home) + Len(TOP_STOCKS) * StocksSleep)
            IN /\ cache' = [cache EXCEPT !.data = Put(data, "stocks", stocks_data),
                                         !.timestamp = current_time]
               /\ last' = Seen(call)
               /\ hist' = Record("stocks", call)
               /\ fetched' = [fetched EXCEPT !.stocks = current_time]
               /\ quotesOk' = (quotesOk /\ \A s \in Symbols : ~QuoteFailed(up.quote[s]))
               /\ succeeded' = (succeeded \/ AnyOk(call.reqs))
               /\ UNCHANGED <<now, flight>>

\* GET /api/stock/<symbol>
get_stock(symbol, home, resp) ==
    LET data == fetch_nse_stock_data(upper(symbol), resp, now)
        reqs == << HomeRequest(home), DataRequest("quote-equity", upper(symbol), resp) >>
    IN /\ last' = Seen(IF Truthy(data)
                       THEN Handled("stock", symbol, 200, data, FALSE, reqs, WarmTime(home))
                       ELSE Handled("stock", symbol, 500,
                                    [error |-> "Failed to fetch stock data"], FALSE, reqs,
                                    WarmTime(home)))
       /\ quotesOk' = (quotesOk /\ ~QuoteFailed(resp))
       /\ succeeded' = (succeeded \/ AnyOk(reqs))
       /\ UNCHANGED <<cache, now, hist, fetched, flight>>

\* /api/indices whose cache hit renews the timestamp
get_indices_touch(up) ==
    LET current_time == now
    IN IF /\ Truthy(cache.data)
          /\ Truthy(Get(cache.data, "indices", None))
          /\ (current_time - cache.timestamp) < cache.ttl
       THEN LET call == Handled("indices", "", 200, cache.data["indices"], TRUE, << >>, 0)
            IN /\ last' = Seen(call)
               /\ hist' = Record("indices", call)
               /\ cache' = [cache EXCEPT !.timestamp = current_time]
               /\ UNCHANGED <<now, fetched, quotesOk, succeeded, flight>>
       ELSE LET indices == fetch_nse_indices(up.indices)
                data == IF ~Truthy(cache.data) THEN EmptyDict ELSE cache.data
                call == Handled("indices", "", 200, indices, FALSE,
                                << HomeRequest(up.home),
                                   DataRequest("allIndices", "", up.indices) >>,
                                WarmTime(up.home))
            IN /\ cache' = [cache EXCEPT !.data = Put(data, "indices", indices),
                                         !.timestamp = current_time]
               /\ last' = Seen(call)
               /\ hist' = Record("indices", call)
               /\ fetched' = [fetched EXCEPT !.indices = current_time]
               /\ succeeded' = (succeeded \/ AnyOk(call.reqs))
               /\ UNCHANGED <<now, quotesOk, flight>>

\* GET /api/indices
get_indices(up) ==
    LET current_time == now
    IN IF /\ Truthy(cache.data)
          /\ Truthy(Get(cache.data, "indices", None))
          /\ (current_time - cache.timestamp) < cache.ttl
       THEN LET call == Handled("indices", "", 200, cache.data["indices"], TRUE, << >>, 0)
            IN /\ last' = Seen(call)
               /\ hist' = Record("indices", call)
               /\ UNCHANGED <<cache, now, fetched, quotesOk, succeeded, flight>>
       ELSE LET indices == fetch_nse_indices(up.indices)
                data == IF ~Truthy(cache.data) THEN EmptyDict ELSE cache.data
                call == Handled("indices", "", 200, indices, FALSE,
                                << HomeRequest(up.home),
                                   DataRequest("allIndices", "", up.indices) >>,
                                WarmTime(up.home))
            IN /\ cache' = [cache EXCEPT !.data = Put(data, "indices", indices),
                                         !.timestamp = current_time]
               /\ last' = Seen(call)
               /\ hist' = Record("indices", call)
               /\ fetched' = [fetched EXCEPT !.indices = current_time]
               /\ succeeded' = (succeeded \/ AnyOk(call.reqs))
               /\ UNCHANGED <<now, quotesOk, flight>>

\* GET /api/movers
get_movers(home, gainers_response, losers_response) ==
    LET movers == fetch_top_gainers_losers(gainers_response, losers_response)
    IN /\ last' = Seen(Handled("movers",
                               [gainers |-> gainers_response, losers |-> losers_response],
                               200, movers, FALSE,
                               <<HomeRequest(home)>>
                                   \o MoversRequests(gainers_response, losers_response),
                               WarmTime(home)))
       /\ succeeded' = (succeeded \/ AnyOk(MoversRequests(gainers_response, losers_response)))
       /\ UNCHANGED <<cache, now, hist, fetched, quotesOk, flight>>

\* complete_data of get_all_data, computed at time clock
Snapshot(up, clock) ==
    LET symbols == Take(TOP_STOCKS, AllStocksLimit)
        indices == fetch_nse_indices(up.indices)
        movers == fetch_top_gainers_losers(up.gainers, up.losers)
        stocks_data == StocksLoop(symbols, 1, up.quote, clock, << >>)
    IN [ indices |-> indices,
         stocks |-> stocks_data,
         movers |-> movers,
         timestamp |-> clock,
         market_status |-> IF OpenHour <= Hour(clock) /\ Hour(clock) < CloseHour
                           THEN "open" ELSE "closed" ]

\* GET /api/all
get_all_data(up) ==
    LET current_time == now
    IN IF Truthy(cache.data) /\ (current_time - cache.timestamp) < cache.ttl
       THEN LET call == Handled("all", "", 200, cache.data, TRUE, << >>, 0)
            IN /\ last' = Seen(call)
               /\ hist' = Record("all", call)
               /\ UNCHANGED <<cache, now, fetched, quotesOk, succeeded, flight>>
       ELSE LET symbols == Take(TOP_STOCKS, AllStocksLimit)
                complete_data == Snapshot(up, now)
                call == Handled("all", "", 200, complete_data, FALSE,
                                << HomeRequest(up.home),
                                   DataRequest("allIndices", "", up.indices) >>
                                    \o MoversRequests(up.gainers, up.losers)
                                    \o StocksRequests(symbols, up.quote),
                                WarmTime(up.home) + Len(symbols) * AllSleep)
            IN /\ cache' = [cache EXCEPT !.data = complete_data,
                                         !.timestamp = current_time]
               /\ last' = Seen(call)
               /\ hist' = Record("all", call)
               /\ fetched' = [stocks |-> current_time, indices |-> current_time,
                              movers |-> current_time]
               /\ quotesOk' = (quotesOk /\ \A i \in DOMAIN symbols :
                                              ~QuoteFailed(up.quote[symbols[i]]))
               /\ succeeded' = (succeeded \/ AnyOk(call.reqs))
               /\ UNCHANGED <<now, flight>>

\* clear-cache that resets the timestamp and keeps the payload
clear_cache_keeps_data ==
    /\ cache' = [cache EXCEPT !.timestamp = 0]
    /\ last' = Seen(Handled("clear", "", 200, [message |-> "Cache cleared successfully"],
                            FALSE, << >>, 0))
    /\ hist' = IF hist = Unobserved THEN hist ELSE NoPairs
    /\ UNCHANGED <<now, fetched, quotesOk, succeeded, flight>>

\* POST /api/clear-cache
clear_cache ==
    /\ cache' = [cache EXCEPT !.data = None, !.timestamp = 0]
    /\ last' = Seen(Handled("clear", "", 200, [message |-> "Cache cleared successfully"],
                            FALSE, << >>, 0))
    /\ hist' = IF hist = Unobserved THEN hist ELSE NoPairs
    /\ fetched' = [stocks |-> Absent, indices |-> Absent, movers |-> Absent]
    /\ UNCHANGED <<now, quotesOk, succeeded, flight>>

Stocks == \E up \in Worlds : get_stocks(up)

Stock == \E symbol \in SymbolInputs, home \in {Raised, Healthy.home} :
             \E resp \in QuoteResponses(upper(symbol)) : get_stock(symbol, home, resp)

Indices == \E up \in Worlds : get_indices(up)

Movers == \E up \in Worlds : get_movers(up.home, up.gainers, up.losers)

All == \E up \in Worlds : get_all_data(up)

Next == Tick \/ Stocks \/ Stock \/ Indices \/ Movers \/ All \/ clear_cache

Spec == Init /\ [][Next]_vars

SpecPairs == InitPairs /\ [][Next]_vars

\* the movers route alone, over every combination of the two responses
MoversAny == \E home \in {Raised, Healthy.home} :
                 \E g \in LegResponses("gainers"), l \in LegResponses("losers") :
                     get_movers(home, g, l)

SpecMovers == Init /\ [][MoversAny]_vars

----------------------------------------------------------------------------
(* Properties.                                                             *)

\* C1: for each cached route, two calls of the route less than TTL apart
\* with no clear-cache between them issue at most one upstream fetch
\* sequence (at most one of them is a miss) and answer the same response.
C1_TwoCallsOneFetch ==
    [][\A c \in CachedRoutes :
          ( /\ hist # Unobserved
            /\ hist[c].valid
            /\ hist'[c].valid
            /\ \/ hist'[c].at # hist[c].at
               \/ hist'[c].hit # hist[c].hit
               \/ hist'[c].status # hist[c].status
               \/ hist'[c].body # hist[c].body
            /\ hist'[c].at - hist[c].at < TTL )
          => /\ hist[c].hit \/ hist'[c].hit
             /\ hist'[c].status = hist[c].status
             /\ hist'[c].body = hist[c].body]_vars

\* C2: a /api/stocks call never ends in an error response: its status is
\* always 200.
C2_StocksAlways200 == last.op = "stocks" => last.status = 200

\* C3: whenever a cached route answers from the cache, every sub-payload of
\* the response (stocks, indices, movers) was fetched by a request that
\* started less than TTL before the call.
C3_ServedYoungerThanTTL ==
    (last.op \in CachedRoutes /\ last.hit /\ last.status = 200)
    => LET served == IF last.op = "all"
                     THEN DOMAIN last.body \cap {"stocks", "indices", "movers"}
                     ELSE {last.op}
       IN \A f \in served : fetched[f] # Absent /\ last.at - fetched[f] < TTL

\* C4: every /api/all response is a full snapshot with the five fields, and
\* its stocks list holds quotes of the first 15 tracked symbols only.
C4_AllIsFullSnapshot ==
    last.op = "all"
    => /\ last.status = 200
       /\ DOMAIN last.body = {"indices", "stocks", "movers", "timestamp", "market_status"}
       /\ Len(last.body.stocks) <= AllStocksLimit
       /\ \A i \in DOMAIN last.body.stocks :
              \E k \in 1..AllStocksLimit : last.body.stocks[i].symbol = TOP_STOCKS[k]

\* C5: while every upstream quote request has succeeded, every /api/stocks
\* response lists exactly the 20 tracked symbols in tracked-list order.
C5_StocksListsAllTracked ==
    (quotesOk /\ last.op = "stocks")
    => /\ last.status = 200
       /\ [i \in DOMAIN last.body |-> last.body[i].symbol] = TOP_STOCKS

\* C6: clear-cache leaves the cache with no payload and timestamp 0, and a
\* call of a cached route handled right after it is a miss: it issues the
\* warm-up and then its upstream data requests, at any clock value.
C6_ClearForcesFetch ==
    /\ last.op = "clear" => (cache.data = None /\ cache.timestamp = 0)
    /\ (last.op \in CachedRoutes /\ last.after_clear)
       => /\ ~last.hit
          /\ last.status = 200
          /\ Len(last.reqs) >= 2
          /\ last.reqs[1].url = "home"
          /\ \A i \in 2..Len(last.reqs) : last.reqs[i].url # "home"

\* a cached route is handled right after a clear-cache, later than the
\* start of the run
C6_Witness ==
    /\ last.op \in CachedRoutes
    /\ last.after_clear
    /\ last.at > 0
    /\ ~last.hit

\* C7: every /api/movers call issues the warm-up, the gainers request and
\* the losers request, in that order, and leaves the cache as it was.
C7_MoversFetchesBothLegs ==
    [][last'.op = "movers"
       => /\ [i \in DOMAIN last'.reqs |-> last'.reqs[i].url]
                = << "home", "gainers", "losers" >>
          /\ cache' = cache]_vars

\* C8: every /api/stock/<symbol> call issues the warm-up and one quote
\* request for the uppercased symbol; it answers 500 with the error body
\* when that request failed in any way and 200 with the quote otherwise; the
\* cache is left as it was.
C8_StockBypassesCache ==
    [][last'.op = "stock"
       => LET requested == IF last'.arg = << "t", "c", "s" >>
                           THEN << "T", "C", "S" >> ELSE << "F", "O", "O" >>
          IN /\ Len(last'.reqs) = 2
             /\ last'.reqs[1].url = "home"
             /\ last'.reqs[2].url = "quote-equity"
             /\ last'.reqs[2].symbol = requested
             /\ last'.reqs[2].outcome # "ok"
                => /\ last'.status = 500
                   /\ last'.body = [error |-> "Failed to fetch stock data"]
             /\ last'.reqs[2].outcome = "ok"
                => /\ last'.status = 200
                   /\ last'.body.symbol = requested
             /\ cache' = cache]_vars

\* /api/stock/Foo met a 503 from upstream while the cache held a payload
C8_Witness ==
    /\ last.op = "stock"
    /\ last.arg = << "F", "o", "o" >>
    /\ last.reqs[2].outcome = "status"
    /\ last.status = 500
    /\ cache.data # None

\* the first min(10, n) of the n entries of a parsed 200 movers response, in
\* upstream order
UpstreamTop10(resp) ==
    LET items == resp.body.NIFTY.data
        n == IF Len(items) < 10 THEN Len(items) ELSE 10
    IN [k \in 1..n |-> [ symbol |-> items[k].symbol,
                         name |-> items[k].meta.companyName,
                         price |-> items[k].lastPrice,
                         change |-> items[k].change,
                         pChange |-> items[k].pChange ]]

\* the request for one side of the movers was issued and answered 200 with
\* a body that parses
LegSucceeded(call, side) ==
    \E i \in DOMAIN call.reqs : call.reqs[i].url = side /\ call.reqs[i].outcome = "ok"

\* C9: when one leg of fetchMovers fails (network error, non-200 status or
\* malformed JSON), that leg is empty and the other leg, if its own request
\* succeeded, still holds its entries.
C9_LegsFailIndependently ==
    last.op = "movers"
    => \A leg \in {"gainers", "losers"} :
           LET other == IF leg = "gainers" THEN "losers" ELSE "gainers"
           IN ~LegSucceeded(last, leg)
              => /\ last.body[leg] = << >>
                 /\ LegSucceeded(last, other)
                    => last.body[other] = UpstreamTop10(last.arg[other])

\* C10: each side of a movers result is the first min(10, n) of the n
\* entries upstream returned for that side, in upstream order.
C10_SidesAreUpstreamPrefix ==
    last.op = "movers"
    => \A side \in {"gainers", "losers"} :
           LegSucceeded(last, side)
           => last.body[side] = UpstreamTop10(last.arg[side])


-----------------------------------------------------------------------------
(* The indices fetcher on its own, over upstream lists of every shape.     *)

\* the longest upstream index list tried
MaxNames == 3

\* names an upstream index list may carry: the four allow-listed ones and
\* two that the allow-list leaves out
IndexNamePool == INDEX_NAMES \cup {"NIFTY AUTO", "NIFTY NEXT 50"}

NameLists == UNION {[1..n -> IndexNamePool] : n \in 0..MaxNames}

\* an upstream list with one item that has no "index" key
NamelessItem == [last |-> 200, variation |-> 3]

IndicesResponses ==
    Failures
    \cup {Reply(404, TRUE, [data |-> <<IndexItem("NIFTY 50")>>])}
    \cup {Reply(200, TRUE, EmptyDict)}
    \cup {Reply(200, TRUE, [data |-> <<NamelessItem, IndexItem("NIFTY IT")>>])}
    \cup {IndicesOk(names) : names \in NameLists}

\* one call of fetch_nse_indices, its input and its result recorded
FetchIndices(resp) ==
    /\ last' = [op |-> "fetch_nse_indices", arg |-> resp,
                body |-> fetch_nse_indices(resp)]
    /\ UNCHANGED <<cache, now, hist, fetched, quotesOk, succeeded, flight>>

IndicesAny == \E resp \in IndicesResponses : FetchIndices(resp)

SpecIndices == Init /\ [][IndicesAny]_vars

\* the names of the items of an upstream index list
UpstreamNames(resp) ==
    LET items == IF "data" \in DOMAIN resp.body THEN resp.body.data ELSE << >>
    IN {items[i].index : i \in {j \in DOMAIN items : "index" \in DOMAIN items[j]}}

\* C11: the mapping returned by the indices fetcher has as keys exactly the
\* upstream item names that are NIFTY 50, NIFTY BANK, NIFTY IT or
\* NIFTY MIDCAP 100, and it is the empty mapping after every failure
\* (exception, non-200 status, body that does not parse).
C11_IndicesKeysAllowListed ==
    last.op = "fetch_nse_indices"
    => IF Outcome(last.arg) = "ok"
       THEN DOMAIN last.body =
                UpstreamNames(last.arg)
                \cap {"NIFTY 50", "NIFTY BANK", "NIFTY IT", "NIFTY MIDCAP 100"}
       ELSE DOMAIN last.body = {}

\* an upstream list naming NIFTY AUTO and NIFTY 50 came back as NIFTY 50 only
C11_Witness ==
    /\ last.op = "fetch_nse_indices"
    /\ Outcome(last.arg) = "ok"
    /\ UpstreamNames(last.arg) = {"NIFTY AUTO", "NIFTY 50"}
    /\ DOMAIN last.body = {"NIFTY 50"}

-----------------------------------------------------------------------------
(* The quote fetcher on its own, over bodies with fields missing.          *)

\* a 200 response whose two sections are present and empty
QuoteHollow == Reply(200, TRUE, [priceInfo |-> EmptyDict, metadata |-> EmptyDict])

\* 200 responses that carry some of the fields and not the others
QuotePriceOnly == Reply(200, TRUE, [priceInfo |-> [lastPrice |-> 100, open |-> 99]])

QuoteNameOnly == Reply(200, TRUE, [metadata |-> [companyName |-> "Company"]])

QuoteBodies(symbol) ==
    QuoteResponses(symbol) \cup {QuoteHollow, QuotePriceOnly, QuoteNameOnly}

\* one call of fetch_nse_stock_data, its input and its result recorded
FetchQuote(symbol, resp) ==
    /\ last' = [op |-> "fetch_nse_stock_data",
                arg |-> [symbol |-> symbol, resp |-> resp],
                body |-> fetch_nse_stock_data(symbol, resp, now)]
    /\ UNCHANGED <<cache, now, hist, fetched, quotesOk, succeeded, flight>>

QuoteAny == \E symbol \in Symbols : \E resp \in QuoteBodies(symbol) : FetchQuote(symbol, resp)

SpecQuote == Init /\ [][QuoteAny]_vars

\* a 200 response that parses and carries none of the fields the fetcher reads
AllFieldsMissing(resp) ==
    /\ Outcome(resp) = "ok"
    /\ \A section \in DOMAIN resp.body : resp.body[section] = EmptyDict

NumericFields ==
    {"price", "change", "pChange", "previousClose", "open", "dayHigh", "dayLow",
     "volume", "value"}

-----------------------------------------------------------------------------
(* The snapshot route around every change of the local hour.               *)

\* the server is first asked one tick before the start of some hour
HourStarts == {h * 36000 - TickStep : h \in 1..24}

InitHours ==
    /\ Loaded /\ Sequential
    /\ now \in HourStarts
    /\ last = NoRequest /\ hist = Unobserved

\* time passes between two requests, across the start of the hour
TickHours ==
    /\ ((now + TickStep) % 36000) + TickStep <= MaxElapsed
    /\ now' = now + TickStep
    /\ UNCHANGED <<cache, last, hist, fetched, quotesOk, succeeded, flight>>

SpecHours == InitHours /\ [][TickHours \/ All]_vars

\* C13: the market_status of a snapshot is "open" exactly when the local
\* hour at which the snapshot was computed is one of 9..15 and "closed" for
\* the hours 16..23 and 0..8; a snapshot answered from the cache carries the
\* status computed when it was fetched, not that of the hour it is served in.
C13_MarketStatusByHour ==
    last.op = "all"
    => LET computed == last.body.timestamp
           h == (computed \div 36000) % 24
       IN /\ last.body.market_status = (IF h \in 9..15 THEN "open" ELSE "closed")
          /\ ~last.hit => computed = last.at
          /\ last.hit => (computed = cache.timestamp /\ last.body = cache.data)

\* a snapshot computed at 8:59:30 is served from the cache after 9:00 and
\* still says closed
C13_Witness ==
    /\ last.op = "all" /\ last.hit
    /\ (last.at \div 36000) % 24 = 9
    /\ last.body.market_status = "closed"

-----------------------------------------------------------------------------
(* Cache hits and cache writes.                                            *)

\* C14: a cache hit has no effect: the handler that answers from the cache
\* runs no warm-up, issues no upstream request, and leaves the cache payload
\* and the cache timestamp as they were.
C14_HitHasNoEffect ==
    [][ (last'.op \in CachedRoutes /\ last'.hit)
        => /\ last'.reqs = << >>
           /\ last'.slept = 0
           /\ cache' = cache ]_vars

\* an indices request was answered from a cache written earlier
C14_Witness ==
    /\ last.op = "indices" /\ last.hit
    /\ last.at > cache.timestamp
    /\ last.reqs = << >>

\* C15: cache writes merge or replace by category: a /api/stocks miss
\* changes only the stocks field and the timestamp, a /api/indices miss only
\* the indices field and the timestamp, every other field of the entry kept;
\* a /api/all miss replaces the payload by the new snapshot, whole.
C15_WritesMergeOrReplace ==
    [][ (last'.op \in CachedRoutes /\ ~last'.hit)
        => LET old == IF cache.data = None THEN << >> ELSE cache.data
               new == cache'.data
           IN /\ cache'.timestamp = last'.at
              /\ cache'.ttl = cache.ttl
              /\ IF last'.op = "all"
                 THEN /\ new = last'.body
                      /\ DOMAIN new = {"indices", "stocks", "movers", "timestamp",
                                       "market_status"}
                 ELSE /\ DOMAIN new = DOMAIN old \cup {last'.op}
                      /\ new[last'.op] = last'.body
                      /\ \A f \in DOMAIN old \ {last'.op} : new[f] = old[f] ]_vars

\* a /api/stocks miss wrote into an entry that held a whole snapshot
C15_Witness ==
    /\ last.op = "stocks" /\ ~last.hit
    /\ cache.data # None
    /\ {"indices", "movers", "market_status"} \subseteq DOMAIN cache.data
    /\ cache.data["stocks"] = last.body
    /\ cache.data["timestamp"] < cache.timestamp

\* C16: the cache payload is absent until the first successful fetch: in
\* every reachable state in which no upstream data request has succeeded yet,
\* the payload is still None, so a total upstream failure is never stored.
C16_AbsentUntilSuccess == ~succeeded => cache.data = None

-----------------------------------------------------------------------------
(* Every handler over every answer of the homepage.                        *)

\* answers of the homepage: a network error or timeout, 200, 503, 404
HomeResponses ==
    {Raised, Reply(200, TRUE, EmptyDict), Refused, Reply(404, TRUE, EmptyDict)}

WarmWorlds ==
    {[up EXCEPT !.home = home] : up \in {Healthy, Down}, home \in HomeResponses}

WarmAny ==
    \/ \E up \in WarmWorlds : get_stocks(up)
    \/ \E up \in WarmWorlds : get_indices(up)
    \/ \E up \in WarmWorlds : get_all_data(up)
    \/ \E home \in HomeResponses : \E resp \in {QuoteOk("TCS"), Refused} :
           get_stock(<<"t", "c", "s">>, home, resp)
    \/ \E home \in HomeResponses : \E resp \in {MoversOk("gainers", 1), Raised} :
           get_movers(home, resp, MoversOk("losers", 1))
    \/ clear_cache

SpecWarm == Init /\ [][WarmAny]_vars

\* C17: the warm-up reports false for every kind of failure, a non-2xx status
\* of the homepage included, and true only when the homepage request
\* succeeded; whatever it reports, the handler goes on to its data requests.
C17_WarmReportsEveryFailure ==
    (last.op \in {"stocks", "stock", "indices", "movers", "all"} /\ ~last.hit)
    => /\ last.reqs[1].url = "home"
       /\ last.reqs[1].returned = (last.reqs[1].outcome = "ok")
       /\ Len(last.reqs) >= 2

-----------------------------------------------------------------------------
(* The request sequence of a /api/stocks miss.                             *)

\* C18: a /api/stocks miss issues, after one warm-up request, exactly one
\* quote request per tracked symbol, in list order and without retry, 21
\* upstream requests in all; the list it returns is the quotes of the
\* symbols whose request succeeded, in that order.
C18_OneRequestPerSymbol ==
    (last.op = "stocks" /\ ~last.hit)
    => /\ Len(last.reqs) = 21
       /\ last.reqs[1].url = "home"
       /\ \A i \in 1..20 : /\ last.reqs[i + 1].url = "quote-equity"
                            /\ last.reqs[i + 1].symbol = TOP_STOCKS[i]
       /\ LET answered(s) == \E i \in 2..21 : /\ last.reqs[i].symbol = s
                                              /\ last.reqs[i].outcome = "ok"
              quoted == SelectSeq(TOP_STOCKS, answered)
          IN /\ Len(last.body) = Len(quoted)
             /\ \A k \in DOMAIN quoted : last.body[k].symbol = quoted[k]
       /\ last.status = 200

\* a miss in which one quote request failed returned the other 19 quotes
C18_Witness ==
    /\ last.op = "stocks" /\ ~last.hit
    /\ Len(last.reqs) = 21
    /\ Len(last.body) = 19
    /\ last.reqs[3].outcome = "malformed"
    /\ last.body[2].symbol = "HDFCBANK"

-----------------------------------------------------------------------------
(* Requests handled concurrently.  Each request runs its handler one       *)
(* statement at a time; statements of different requests interleave.  The  *)
(* cache check of a handler and the two assignments of clear_cache are     *)
(* each taken as one step; the observers of the sequential handlers are    *)
(* not kept here.                                                          *)

\* the number of requests served concurrently
MaxRequests == 2

Requests == 1..MaxRequests

\* the number of times the clock advances while requests are in flight
FlightTicks == 1

\* what the upstream answers to requests in flight
FlightWorlds == {Healthy}

Idle ==
    [ pc |-> "idle", op |-> "none", current_time |-> 0, result |-> None,
      status |-> 0, miss |-> FALSE, cleared |-> FALSE, lowered |-> FALSE ]

InitFlight ==
    /\ Program
    /\ last = Unobserved /\ hist = Unobserved
    /\ flight = [r \in Requests |-> Idle]

\* the request goes on to another statement of its handler
Goto(r, to) == [flight EXCEPT ![r].pc = to]

\* the request returns: of its record only the response status is kept, and
\* whether its last statement made the cache timestamp smaller
Return(r, status, lowered) ==
    [flight EXCEPT ![r] = [ Idle EXCEPT !.pc = "done", !.status = status,
                                        !.lowered = lowered ]]

KeepObservers == UNCHANGED <<now, last, hist, fetched, quotesOk, succeeded>>

\* current_time = time.time(), the cache check of the three cached routes
\* and, on a miss, the warm-up and the upstream requests, which do not touch
\* the cache; the requests are numbered in the order in which they begin
Begin(r, op, up) ==
    /\ flight[r].pc = "idle"
    /\ \A earlier \in 1..(r - 1) : flight[earlier].pc # "idle"
    /\ LET current_time == now
           fresh == (current_time - cache.timestamp) < cache.ttl
           hit == IF op = "indices"
                  THEN /\ Truthy(cache.data)
                       /\ Truthy(Get(cache.data, "indices", None))
                       /\ fresh
                  ELSE Truthy(cache.data) /\ fresh
           result == IF op = "stocks"
                     THEN StocksLoop(TOP_STOCKS, 1, up.quote, now, << >>)
                     ELSE IF op = "indices" THEN fetch_nse_indices(up.indices)
                     ELSE Snapshot(up, now)
       IN flight' = [flight EXCEPT ![r] =
                        IF hit
                        THEN [Idle EXCEPT !.pc = "serve", !.op = op]
                        ELSE [Idle EXCEPT !.pc = IF op = "all" THEN "replace" ELSE "test",
                                          !.op = op,
                                          !.current_time = current_time,
                                          !.result = result,
                                          !.miss = TRUE ]]
    /\ UNCHANGED cache
    /\ KeepObservers

\* the return statement of a cache hit, which reads the cache once more
Serve(r) ==
    /\ flight[r].pc = "serve"
    /\ LET op == flight[r].op
           status == IF op = "all" THEN 200
                     ELSE IF cache.data = None THEN 500
                     ELSE IF op \in DOMAIN cache.data THEN 200 ELSE 500
       IN flight' = Return(r, status, FALSE)
    /\ UNCHANGED cache
    /\ KeepObservers

\* if not cache['data']:
Test(r) ==
    /\ flight[r].pc = "test"
    /\ flight' = Goto(r, IF ~Truthy(cache.data) THEN "create" ELSE "store")
    /\ UNCHANGED cache
    /\ KeepObservers

\* cache['data'] = {}
Create(r) ==
    /\ flight[r].pc = "create"
    /\ cache' = [cache EXCEPT !.data = EmptyDict]
    /\ flight' = Goto(r, "store")
    /\ KeepObservers

\* cache['data'][key] = result, a TypeError when cache['data'] is None
Store(r) ==
    /\ flight[r].pc = "store"
    /\ IF cache.data = None
       THEN /\ flight' = Return(r, 500, FALSE)
            /\ UNCHANGED cache
       ELSE /\ cache' = [cache EXCEPT !.data = Put(cache.data, flight[r].op,
                                                    flight[r].result)]
            /\ flight' = [flight EXCEPT ![r].pc = "stamp", ![r].result = None]
    /\ KeepObservers

\* cache['data'] = complete_data
Replace(r) ==
    /\ flight[r].pc = "replace"
    /\ cache' = [cache EXCEPT !.data = flight[r].result]
    /\ flight' = [flight EXCEPT ![r].pc = "stamp", ![r].result = None]
    /\ KeepObservers

\* a timestamp assignment that takes the time of the write
Stamp_now(r) ==
    /\ flight[r].pc = "stamp"
    /\ cache' = [cache EXCEPT !.timestamp = now]
    /\ flight' = Return(r, 200, now < cache.timestamp)
    /\ KeepObservers

\* cache['timestamp'] = current_time, and the return of the miss
Stamp(r) ==
    /\ flight[r].pc = "stamp"
    /\ cache' = [cache EXCEPT !.timestamp = flight[r].current_time]
    /\ flight' = Return(r, 200, flight[r].current_time < cache.timestamp)
    /\ KeepObservers

InFlightMiss(request) ==
    request.miss /\ request.pc \in {"test", "create", "store", "replace", "stamp"}

\* POST /api/clear-cache beside the requests in flight; the misses in flight
\* are marked as having seen a clear
Clear ==
    /\ cache' = [cache EXCEPT !.data = None, !.timestamp = 0]
    /\ flight' = [r \in Requests |->
                     IF InFlightMiss(flight[r])
                     THEN [flight[r] EXCEPT !.cleared = TRUE]
                     ELSE flight[r]]
    /\ KeepObservers

\* time passes while requests are in flight
Elapse ==
    /\ now < FlightTicks * TickStep
    /\ now' = now + TickStep
    /\ UNCHANGED <<cache, last, hist, fetched, quotesOk, succeeded, flight>>

NextFlight ==
    \/ \E r \in Requests : \E op \in CachedRoutes : \E up \in FlightWorlds : Begin(r, op, up)
    \/ \E r \in Requests : Serve(r)
    \/ \E r \in Requests : Test(r)
    \/ \E r \in Requests : Create(r)
    \/ \E r \in Requests : Store(r)
    \/ \E r \in Requests : Replace(r)
    \/ \E r \in Requests : Stamp(r)
    \/ Clear
    \/ Elapse

SpecFlight == InitFlight /\ [][NextFlight]_vars

\* C19: a clear-cache that runs while a /api/stocks or /api/indices miss is
\* in flight never makes that request fail: the request completes with 200
\* and leaves the cache payload absent or a map holding the field it wrote.
C19_ClearNeverFailsMiss ==
    [][ \A r \in Requests :
            ( /\ flight[r].pc # "done" /\ flight'[r].pc = "done"
              /\ flight[r].op \in {"stocks", "indices"}
              /\ flight[r].miss /\ flight[r].cleared )
            => /\ flight'[r].status = 200
               /\ (cache'.data = None \/ flight[r].op \in DOMAIN cache'.data) ]_vars

\* C20 as stated: the cache timestamp never decreases except through
\* clear-cache: no statement of a request handler replaces the timestamp by
\* an older one.
C20_TimestampNeverDecreases ==
    [][ (\E r \in Requests : flight'[r].pc # flight[r].pc)
        => cache'.timestamp >= cache.timestamp ]_vars

\* C20 amended: the timestamp is not monotonic; a statement of a request
\* handler that changes it is the last statement of a miss and sets it to
\* the time at which that request began, which is never in the future.
C20_TimestampIsStartOfWriter ==
    [][ /\ cache'.timestamp <= now'
        /\ \A r \in Requests :
               (flight'[r].pc # flight[r].pc /\ cache'.timestamp # cache.timestamp)
               => /\ flight[r].pc = "stamp" /\ flight'[r].pc = "done"
                  /\ flight[r].miss
                  /\ cache'.timestamp = flight[r].current_time ]_vars

\* a miss has returned 200 after stamping the payload of a miss that began
\* later with its own, older start time
C20_Witness ==
    \E r \in Requests :
        /\ flight[r].pc = "done" /\ flight[r].status = 200 /\ flight[r].lowered
        /\ cache.data # None
        /\ cache.timestamp < now

====
